---- MODULE Spec2Model ----
(***************************************************************************)
(* Model of the two Streamlit programs of the repository:                  *)
(*                                                                         *)
(*   src/embed/My IT Training/index.py   (pipeline A: MCI -> BVI -> HS)    *)
(*   src/embed/app.py                    (pipeline B: MCR -> BVI -> GEI,   *)
(*                                        session accumulator, CSV)        *)
(*                                                                         *)
(* Every number the programs compute is a Python float, i.e. an IEEE-754   *)
(* binary64 value.  The model computes with exactly these values: a float  *)
(* is a record [s, m, e] standing for (-1)^s * m * 2^e with a 53-bit       *)
(* significand m, and +, -, *, / and round(x, 2) round as Python does      *)
(* (round-to-nearest, ties-to-even).  The significands exceed the integers *)
(* of the model checker, so they are kept as little-endian sequences of    *)
(* 15-bit limbs.                                                           *)
(***************************************************************************)
EXTENDS Integers, Sequences, FiniteSets, TLC

(***************************************************************************)
(* Exact natural numbers (the significands and the exact intermediate      *)
(* results of the float operations).                                       *)
(***************************************************************************)
LimbBits == 15
Base == 2 ^ LimbBits

RECURSIVE Pow2(_)
Pow2(n) == IF n = 0 THEN 1 ELSE 2 * Pow2(n - 1)

RECURSIVE BNorm(_)
BNorm(a) ==
    IF a = <<>> THEN a
    ELSE IF a[Len(a)] = 0 THEN BNorm(SubSeq(a, 1, Len(a) - 1))
    ELSE a

RECURSIVE FromNat(_)
FromNat(n) == IF n = 0 THEN <<>> ELSE <<n % Base>> \o FromNat(n \div Base)

RECURSIVE BAddC(_, _, _)
BAddC(a, b, c) ==
    IF a = <<>> /\ b = <<>> THEN (IF c = 0 THEN <<>> ELSE <<c>>)
    ELSE LET x == (IF a = <<>> THEN 0 ELSE Head(a))
                  + (IF b = <<>> THEN 0 ELSE Head(b)) + c
         IN  <<x % Base>> \o BAddC(IF a = <<>> THEN a ELSE Tail(a),
                                   IF b = <<>> THEN b ELSE Tail(b),
                                   x \div Base)

BAdd(a, b) == BAddC(a, b, 0)

\* a - b - c for a >= b + c
RECURSIVE BSubC(_, _, _)
BSubC(a, b, c) ==
    IF a = <<>> THEN <<>>
    ELSE LET x == Head(a) - (IF b = <<>> THEN 0 ELSE Head(b)) - c
         IN  <<IF x < 0 THEN x + Base ELSE x>>
             \o BSubC(Tail(a), IF b = <<>> THEN b ELSE Tail(b),
                      IF x < 0 THEN 1 ELSE 0)

BSub(a, b) == BNorm(BSubC(a, b, 0))

\* -1, 0, 1 as a < b, a = b, a > b (canonical operands)
RECURSIVE BCmpFrom(_, _, _)
BCmpFrom(a, b, i) ==
    IF i = 0 THEN 0
    ELSE IF a[i] < b[i] THEN -1
    ELSE IF a[i] > b[i] THEN 1
    ELSE BCmpFrom(a, b, i - 1)

BCmp(a, b) ==
    IF Len(a) < Len(b) THEN -1
    ELSE IF Len(a) > Len(b) THEN 1
    ELSE BCmpFrom(a, b, Len(a))

RECURSIVE BMulSmallC(_, _, _)
BMulSmallC(a, k, c) ==
    IF a = <<>> THEN (IF c = 0 THEN <<>> ELSE <<c>>)
    ELSE LET x == Head(a) * k + c
         IN  <<x % Base>> \o BMulSmallC(Tail(a), k, x \div Base)

\* a * k for 0 <= k < Base
BMulSmall(a, k) == IF k = 0 THEN <<>> ELSE BMulSmallC(a, k, 0)

BShiftLimb(a) == IF a = <<>> THEN a ELSE <<0>> \o a

RECURSIVE BMul(_, _)
BMul(a, b) ==
    IF b = <<>> \/ a = <<>> THEN <<>>
    ELSE BAdd(BMulSmall(a, Head(b)), BShiftLimb(BMul(a, Tail(b))))

\* floor(a / k) for 0 < k < Base, the limbs taken from the top
RECURSIVE BDivSmallR(_, _, _)
BDivSmallR(a, k, r) ==
    IF a = <<>> THEN <<>>
    ELSE LET x == r * Base + a[Len(a)]
         IN  BDivSmallR(SubSeq(a, 1, Len(a) - 1), k, x % k) \o <<x \div k>>

BDivSmall(a, k) == BNorm(BDivSmallR(a, k, 0))

RECURSIVE IntBitLen(_)
IntBitLen(n) == IF n = 0 THEN 0 ELSE 1 + IntBitLen(n \div 2)

BitLen(a) == IF a = <<>> THEN 0 ELSE (Len(a) - 1) * LimbBits + IntBitLen(a[Len(a)])

RECURSIVE Zeros(_)
Zeros(n) == IF n = 0 THEN <<>> ELSE <<0>> \o Zeros(n - 1)

\* a * 2^n
Shl(a, n) ==
    IF a = <<>> THEN a
    ELSE Zeros(n \div LimbBits) \o BMulSmall(a, Pow2(n % LimbBits))

\* floor(a / 2^n)
Shr(a, n) ==
    IF Len(a) <= n \div LimbBits THEN <<>>
    ELSE BDivSmall(SubSeq(a, n \div LimbBits + 1, Len(a)), Pow2(n % LimbBits))

\* bit i (from 0) of a
Bit(a, i) ==
    IF Len(a) <= i \div LimbBits THEN 0
    ELSE (a[i \div LimbBits + 1] \div Pow2(i % LimbBits)) % 2

\* whether the n lowest bits of a are all 0
LowZero(a, n) ==
    /\ \A j \in 1..(n \div LimbBits) : j > Len(a) \/ a[j] = 0
    /\ \/ Len(a) <= n \div LimbBits
       \/ a[n \div LimbBits + 1] % Pow2(n % LimbBits) = 0

IsOdd(a) == a # <<>> /\ a[1] % 2 = 1

(***************************************************************************)
(* Python floats.                                                          *)
(***************************************************************************)
Prec == 53

FZero(s) == [s |-> s, m |-> <<>>, e |-> 0]

IsZero(x) == x.m = <<>>

\* The float of the significand q (Prec bits, the exact one cut off), or of
\* q + 1 when the cut-off part rounds up.
Rounded(s, q, e, up) ==
    LET q1 == IF up THEN BAdd(q, <<1>>) ELSE q
    IN  IF BitLen(q1) > Prec
        THEN [s |-> s, m |-> Shr(q1, 1), e |-> e + 1]
        ELSE [s |-> s, m |-> q1, e |-> e]

\* whether n * 2^e (+ a little, if sticky) rounds up when cut by sh > 0
\* bits: round-to-nearest, ties-to-even
RoundsUp(n, sh, sticky) ==
    /\ Bit(n, sh - 1) = 1
    /\ \/ sticky
       \/ ~LowZero(n, sh - 1)
       \/ IsOdd(Shr(n, sh))

\* The float nearest to (-1)^s * (n * 2^e [+ a little, if sticky]).
RoundToFloat(s, n, e, sticky) ==
    IF n = <<>> THEN FZero(s)
    ELSE LET len == BitLen(n)
         IN  IF len <= Prec
             THEN [s |-> s, m |-> Shl(n, Prec - len), e |-> e - (Prec - len)]
             ELSE Rounded(s, Shr(n, len - Prec), e + (len - Prec),
                          RoundsUp(n, len - Prec, sticky))

\* float(n) for an integer n
FromInt(n) ==
    IF n < 0 THEN RoundToFloat(1, FromNat(-n), 0, FALSE)
    ELSE RoundToFloat(0, FromNat(n), 0, FALSE)

FNeg(x) == [x EXCEPT !.s = 1 - x.s]

FAbs(x) == [x EXCEPT !.s = 0]

\* x + y
FAdd(x, y) ==
    IF IsZero(x) /\ IsZero(y) THEN FZero(IF x.s = 1 /\ y.s = 1 THEN 1 ELSE 0)
    ELSE IF IsZero(x) THEN y
    ELSE IF IsZero(y) THEN x
    ELSE LET e  == IF x.e < y.e THEN x.e ELSE y.e
             mx == Shl(x.m, x.e - e)
             my == Shl(y.m, y.e - e)
             c  == BCmp(mx, my)
         IN  IF x.s = y.s THEN RoundToFloat(x.s, BAdd(mx, my), e, FALSE)
             ELSE IF c = 0 THEN FZero(0)
             ELSE IF c > 0 THEN RoundToFloat(x.s, BSub(mx, my), e, FALSE)
             ELSE RoundToFloat(y.s, BSub(my, mx), e, FALSE)

\* x - y
FSub(x, y) == FAdd(x, FNeg(y))

\* x * y
FMul(x, y) ==
    LET s == IF x.s = y.s THEN 0 ELSE 1
    IN  IF IsZero(x) \/ IsZero(y) THEN FZero(s)
        ELSE RoundToFloat(s, BMul(x.m, y.m), x.e + y.e, FALSE)

\* x ** 2 is the C library's pow(x, 2.0), which need not be correctly
\* rounded: glibc documents a worst-case error of a little over half a unit in
\* the last place.  When the exact square lies within 1/32 of such a unit from
\* the midpoint of two floats, a library may return either of them; libm says
\* which this build's library returns: "nearest" (every square correctly
\* rounded) or "other" (the other neighbour in these cases).
NearTieBits == 5

Libms == {"nearest", "other"}

FPow2(x, libm) ==
    IF IsZero(x) THEN FZero(0)
    ELSE LET n    == BMul(x.m, x.m)
             sh   == BitLen(n) - Prec
             up   == RoundsUp(n, sh, FALSE)
             top  == Shr(n, sh - NearTieBits)[1] % Pow2(NearTieBits)
             near == top \in {Pow2(NearTieBits - 1) - 1, Pow2(NearTieBits - 1)}
         IN  Rounded(0, Shr(n, sh), 2 * x.e + sh,
                     IF libm = "other" /\ near THEN ~up ELSE up)

RECURSIVE IntTrailingZeros(_)
IntTrailingZeros(n) == IF n % 2 = 1 THEN 0 ELSE 1 + IntTrailingZeros(n \div 2)

\* the number of trailing 0 bits of a # 0
RECURSIVE TrailingZeros(_)
TrailingZeros(a) ==
    IF Head(a) = 0 THEN LimbBits + TrailingZeros(Tail(a))
    ELSE IntTrailingZeros(Head(a))

\* x / y for y # 0.  Every divisor of the two programs is a constant (2.5,
\* 100, 10, 50000) and every decimal literal a quotient by a power of ten:
\* the odd part of the divisor's significand is below Base, and the exact
\* quotient is one short division.
GuardBits == 18

FDiv(x, y) ==
    LET s  == IF x.s = y.s THEN 0 ELSE 1
        tz == TrailingZeros(y.m)
        od == Shr(y.m, tz)
    IN  IF IsZero(x) THEN FZero(s)
        ELSE IF Len(od) # 1 THEN [s |-> s, m |-> "unsupported divisor", e |-> 0]
        ELSE LET n == Shl(x.m, GuardBits)
                 q == BDivSmall(n, od[1])
             IN  RoundToFloat(s, q, x.e - GuardBits - (y.e + tz),
                              BMulSmall(q, od[1]) # n)

\* x < y
FLt(x, y) ==
    IF IsZero(x) /\ IsZero(y) THEN FALSE
    ELSE IF IsZero(x) THEN y.s = 0
    ELSE IF IsZero(y) THEN x.s = 1
    ELSE IF x.s # y.s THEN x.s = 1
    ELSE LET e  == IF x.e < y.e THEN x.e ELSE y.e
             c  == BCmp(Shl(x.m, x.e - e), Shl(y.m, y.e - e))
         IN  IF x.s = 0 THEN c < 0 ELSE c > 0

\* x == y (0.0 == -0.0)
FEq(x, y) == ~FLt(x, y) /\ ~FLt(y, x)

\* x <= y
FLe(x, y) == ~FLt(y, x)

\* The float a decimal literal n/d denotes (n an integer, d a power of ten),
\* e.g. 7.83 is Dec(783, 100).
Dec(n, d) == FDiv(FromInt(n), FromInt(d))

\* Python's min(a, b) and max(a, b): the first argument unless the second
\* is strictly smaller (larger).
PyMin(a, b) == IF FLt(b, a) THEN b ELSE a

PyMax(a, b) == IF FLt(a, b) THEN b ELSE a

\* Python's round(x, 2): the exact value of x rounded half-even to two
\* decimals, and the float nearest to that decimal.
Round2(x) ==
    IF IsZero(x) \/ x.e >= 0 THEN x
    ELSE LET n    == BMulSmall(x.m, 100)
             sh   == -x.e
             q    == Shr(n, sh)
             half == Bit(n, sh - 1) = 1
             rest == ~LowZero(n, sh - 1)
             up   == half /\ (rest \/ IsOdd(q))
             k    == IF up THEN BAdd(q, <<1>>) ELSE q
         IN  FDiv(RoundToFloat(x.s, k, 0, FALSE), FromInt(100))

(***************************************************************************)
(* The state.                                                              *)
(*                                                                         *)
(* libm          which neighbour this build's pow returns (see FPow2)      *)
(* co_consts     the floats of the decimal literals of the two scripts, as *)
(*               the compiler stores them: literal <<n, d>> is n/d         *)
(*                                                                         *)
(* index.py (pipeline A); a widget holds the decimal it shows, in          *)
(* hundredths, and hands the script the float of that decimal:             *)
(* freq, emf, env_factor   the three sidebar sliders                       *)
(* df            the table of the last script run                          *)
(*                                                                         *)
(* A direct call of one of index.py's functions (the claims about them     *)
(* cover arguments no slider yields):                                      *)
(* call          [fn, args]: the function and its arguments, as decimals   *)
(*               in hundredths                                             *)
(* ret           what it returned                                          *)
(*                                                                         *)
(* app.py (pipeline B):                                                    *)
(* typed         what the user of this session enters in the number fields *)
(* planet        the planet the selectbox shows                            *)
(* entered       what is entered in the number fields, <<>> while they     *)
(*               show their defaults                                       *)
(* session_state st.session_state                                          *)
(* page          the elements the last run of app.py put on the page       *)
(* presses       history: the planet and the three numbers of the widgets  *)
(*               at each press of "Run Simulation"                         *)
(***************************************************************************)
VARIABLES libm, co_consts, freq, emf, env_factor, df, call, ret,
          typed, planet, entered, session_state, page, presses

varsB == <<typed, planet, entered, session_state, page, presses>>

\* the float of the literal n/d of the source
Lit(n, d) == co_consts[<<n, d>>]

\* the float a widget or a test hands over for the decimal n/100
Hundredths(n) == Dec(n, 100)

(***************************************************************************)
(* src/embed/My IT Training/index.py: the formulas of pipeline A.          *)
(***************************************************************************)
SCHUMANN_RESONANCE == Lit(783, 100)

\* a tolerance of 3.0 Hz in place of 2.5
MAX_FREQ_TOLERANCE_wide == Dec(30, 10)

MAX_FREQ_TOLERANCE == Lit(25, 10)

\* the defaults of clamp's min_value and max_value
clamp_min_value == Lit(0, 10)

clamp_max_value == Lit(10, 10)

\* a clamp that lets every value through
clamp_nothing(value) == value

clamp(value) == PyMax(PyMin(value, clamp_max_value), clamp_min_value)

\* the int literals 1 and 0 of calculate_MCI, made floats by the arithmetic
\* they enter
int_1 == Lit(1, 1)

int_0 == Lit(0, 1)

\* "score" of calculate_MCI
MCI_score(freq_) ==
    LET diff == FAbs(FSub(freq_, SCHUMANN_RESONANCE))
    IN  IF FLe(diff, MAX_FREQ_TOLERANCE)
        THEN FSub(int_1, FDiv(diff, MAX_FREQ_TOLERANCE))
        ELSE int_0

calculate_MCI(freq_, emf_) == clamp(FMul(MCI_score(freq_), FSub(int_1, emf_)))

\* clamp(MCI ** 2), on a build whose pow is libm_
calculate_BVI(MCI, libm_) == clamp(FPow2(MCI, libm_))

\* the weights of calculate_HS
\* a weight of 0.6 on MCI: the three weights then add up to 1.1
HS_weight_MCI_heavy == Dec(6, 10)

HS_weight_MCI == Lit(5, 10)

HS_weight_BVI == Lit(4, 10)

HS_weight_env == Lit(1, 10)

\* 0.5 * MCI + 0.4 * BVI + 0.1 * env_factor, before the clamp
HS_sum(MCI, BVI, env_factor_) ==
    FAdd(FAdd(FMul(HS_weight_MCI, MCI), FMul(HS_weight_BVI, BVI)),
         FMul(HS_weight_env, env_factor_))

calculate_HS(MCI, BVI, env_factor_) == clamp(HS_sum(MCI, BVI, env_factor_))

\* one environment dict of generate_results, before the loop; the key
\* "Env Factor" is written EnvFactor
Env(name, frequency, emf_, env_factor_) ==
    [Environment |-> name, Frequency |-> frequency, EMF |-> emf_,
     EnvFactor |-> env_factor_]

presets ==
    << Env("Earth", Lit(783, 100), Lit(2, 10), Lit(9, 10)),
       Env("Mars", Lit(21, 10), Lit(5, 100), Lit(3, 10)),
       Env("EMRP Bubble", Lit(78, 10), Lit(1, 100), Lit(10, 10)),
       Env("Urban Earth", Lit(69, 10), Lit(6, 10), Lit(7, 10)) >>

\* a loop body that scores HS before BVI is known, with MCI in its place
Scored_hs_before_bvi(env, libm_) ==
    CHOOSE row \in
        { [Environment |-> env.Environment, Frequency |-> env.Frequency,
           EMF |-> env.EMF, EnvFactor |-> env.EnvFactor,
           MCI |-> mb[1], BVI |-> mb[2],
           HS |-> calculate_HS(mb[1], mb[1], env.EnvFactor)] :
          mb \in { <<mci, calculate_BVI(mci, libm_)>> :
                   mci \in {calculate_MCI(env.Frequency, env.EMF)} } } : TRUE

\* the body of the loop of generate_results: the three formulas in order, each
\* reading what the one before stored in the dict
Scored(env, libm_) ==
    CHOOSE row \in
        { [Environment |-> env.Environment, Frequency |-> env.Frequency,
           EMF |-> env.EMF, EnvFactor |-> env.EnvFactor,
           MCI |-> mb[1], BVI |-> mb[2],
           HS |-> calculate_HS(mb[1], mb[2], env.EnvFactor)] :
          mb \in { <<mci, calculate_BVI(mci, libm_)>> :
                   mci \in {calculate_MCI(env.Frequency, env.EMF)} } } : TRUE

\* custom_input is a dict with the keys Frequency, EMF and Env Factor; the
\* result is the list of rows of the DataFrame
generate_results(custom_input, libm_) ==
    LET envs == presets \o << Env("Custom Input", custom_input.Frequency,
                                  custom_input.EMF, custom_input.EnvFactor) >>
    IN  [i \in 1..Len(envs) |->
            CHOOSE row \in {Scored(env, libm_) : env \in {envs[i]}} : TRUE]

\* custom_input of the script, from the sliders
custom_input_of(f, e, v) ==
    [Frequency |-> Hundredths(f), EMF |-> Hundredths(e),
     EnvFactor |-> Hundredths(v)]

(***************************************************************************)
(* index.py as a program: Streamlit runs the script top to bottom when the *)
(* page is opened and again on every change of a slider; a run reads the   *)
(* sliders and rebuilds the table.                                         *)
(***************************************************************************)
\* the sliders' min_value, max_value and value, in hundredths
freq_min == 0
freq_max == 1500
freq_value == 783
emf_min == 0
emf_max == 100
emf_value == 20
env_factor_min == 0
env_factor_max == 100
env_factor_value == 90

\* the slider positions the model tries
FreqPositions == {210, 533, 690, 780, 783, 1500}
EmfPositions == {0, 5, 20, 60, 100}
EnvPositions == {0, 30, 90, 100}

\* one run of the script
ScriptA(f, e, v) ==
    /\ freq' = f
    /\ emf' = e
    /\ env_factor' = v
    /\ df' = generate_results(custom_input_of(f, e, v), libm)
    /\ UNCHANGED <<libm, co_consts, call, ret>>
    /\ UNCHANGED varsB

NoCall == [fn |-> "none", args |-> <<>>]

\* the literals of index.py: 7.83, 2.5, clamp's 0.0 and 1.0, the ints 1 and 0,
\* the weights 0.5, 0.4 and 0.1, and the presets' numbers
LiteralsA ==
    { <<783, 100>>, <<25, 10>>, <<0, 10>>, <<10, 10>>, <<1, 1>>, <<0, 1>>,
      <<5, 10>>, <<4, 10>>, <<1, 10>>,
      <<2, 10>>, <<9, 10>>, <<21, 10>>, <<5, 100>>, <<3, 10>>, <<78, 10>>,
      <<1, 100>>, <<69, 10>>, <<6, 10>>, <<7, 10>> }

InitA ==
    /\ libm \in Libms
    /\ typed = <<>>
    /\ planet = "Earth"
    /\ entered = <<>>
    /\ session_state = <<>>
    /\ page = <<>>
    /\ presses = <<>>
    /\ co_consts = [l \in LiteralsA |-> Dec(l[1], l[2])]
    /\ freq = freq_value
    /\ emf = emf_value
    /\ env_factor = env_factor_value
    /\ df = generate_results(custom_input_of(freq_value, emf_value, env_factor_value), libm)
    /\ call = NoCall
    /\ ret = <<>>

SlideFreq(f) == freq_min <= f /\ f <= freq_max /\ f # freq /\ ScriptA(f, emf, env_factor)

SlideEmf(e) == emf_min <= e /\ e <= emf_max /\ e # emf /\ ScriptA(freq, e, env_factor)

SlideEnv(v) ==
    env_factor_min <= v /\ v <= env_factor_max /\ v # env_factor /\ ScriptA(freq, emf, v)

\* a rerun with the sliders as they are (the R key, a tab switch)
RerunA == ScriptA(freq, emf, env_factor)

(***************************************************************************)
(* index.py's functions called directly, once, with arguments drawn at the *)
(* start; the arguments go beyond the sliders' ranges.                     *)
(***************************************************************************)
ArgFreq == {-100, 0, 210, 532, 533, 534, 690, 780, 783, 1032, 1033, 1034, 1500, 2000}
ArgEmf == {-50, 0, 1, 5, 20, 60, 100, 150}
ArgEnv == {-100, 0, 30, 70, 90, 100, 250}
ArgIndex == {-50, 0, 33, 50, 64, 80, 100, 150}

Calls ==
    [fn : {"clamp"}, args : {<<x>> : x \in ArgIndex \cup ArgEnv}]
    \cup [fn : {"calculate_MCI"}, args : ArgFreq \X ArgEmf]
    \cup [fn : {"calculate_BVI"}, args : {<<x>> : x \in ArgIndex}]
    \cup [fn : {"calculate_HS"}, args : ArgIndex \X ArgIndex \X ArgEnv]
    \cup [fn : {"generate_results"}, args : ArgFreq \X ArgEmf \X ArgEnv]

InitFn ==
    /\ libm \in Libms
    /\ typed = <<>>
    /\ planet = "Earth"
    /\ entered = <<>>
    /\ session_state = <<>>
    /\ page = <<>>
    /\ presses = <<>>
    /\ co_consts = [l \in LiteralsA |-> Dec(l[1], l[2])]
    /\ freq = freq_value
    /\ emf = emf_value
    /\ env_factor = env_factor_value
    /\ df = <<>>
    /\ call \in Calls
    /\ ret = <<>>

Returns(fn, value) ==
    /\ call.fn = fn
    /\ ret = <<>>
    /\ ret' = <<value>>
    /\ UNCHANGED <<libm, co_consts, freq, emf, env_factor, df, call>>
    /\ UNCHANGED varsB

Call_clamp == Returns("clamp", clamp(Hundredths(call.args[1])))

Call_calculate_MCI ==
    Returns("calculate_MCI",
            calculate_MCI(Hundredths(call.args[1]), Hundredths(call.args[2])))

Call_calculate_BVI ==
    Returns("calculate_BVI", calculate_BVI(Hundredths(call.args[1]), libm))

Call_calculate_HS ==
    Returns("calculate_HS",
            calculate_HS(Hundredths(call.args[1]), Hundredths(call.args[2]),
                         Hundredths(call.args[3])))

Call_generate_results ==
    Returns("generate_results",
            generate_results(custom_input_of(call.args[1], call.args[2], call.args[3]),
                             libm))

(***************************************************************************)
(* app.py (pipeline B).  The browser holds the widgets: the selected       *)
(* planet and what the user entered in the three number fields (nothing    *)
(* while a field shows its default).  Numbers of the widgets are kept in   *)
(* hundredths; the script reads them as floats.                            *)
(*                                                                         *)
(* Column names are written in ASCII: uT for the micro-tesla sign and m2   *)
(* for the square metre.                                                   *)
(***************************************************************************)
\* calculate_mcr without its round()
calculate_mcr_unrounded(magnetic_field_strength) ==
    FDiv(magnetic_field_strength, Lit(100, 1))

calculate_mcr(magnetic_field_strength) ==
    Round2(FDiv(magnetic_field_strength, Lit(100, 1)))

calculate_bvi(mcr, atmospheric_pressure_) ==
    Round2(FDiv(FMul(mcr, atmospheric_pressure_), Lit(50000, 1)))

\* a calculate_gei that clamps its result at 0
calculate_gei_clamped(solar_flux_) ==
    PyMax(FZero(0), Round2(FSub(Lit(100, 1), FDiv(solar_flux_, Lit(10, 1)))))

calculate_gei(solar_flux_) ==
    Round2(FSub(Lit(100, 1), FDiv(solar_flux_, Lit(10, 1))))

\* the text of a number in an f-string or a CSV cell: the shortest repr, which
\* names one float
str(x) == [repr |-> x]

\* the lines of text of the report
generate_pdf(mcr, bvi, gei, planet_, inputs) ==
    << <<"Planet Magnetic Rhythm Simulation Report">>,
       <<"-----------------------------------------">>,
       <<"Planet: ", planet_>>,
       <<"Magnetic Field Strength (uT): ", str(inputs.magnetic_field)>>,
       <<"Atmospheric Pressure (Pa): ", str(inputs.atmospheric_pressure)>>,
       <<"Solar Flux (W/m2): ", str(inputs.solar_flux)>>,
       <<"">>,
       <<"MCR: ", str(mcr)>>,
       <<"BVI: ", str(bvi)>>,
       <<"GEI: ", str(gei)>> >>

\* an initialisation without the "not in" test: every run starts a new list
initialise_always(ss) == [simulation_results |-> <<>>]

\* "if 'simulation_results' not in st.session_state: ... = []"
initialise(ss) ==
    IF "simulation_results" \in DOMAIN ss THEN ss ELSE [simulation_results |-> <<>>]

planets == <<"Earth", "Mars", "Custom Planet">>

default_values ==
    [Earth |-> [magnetic_field |-> 5000, atmospheric_pressure |-> 10132500,
                solar_flux |-> 136100],
     Mars |-> [magnetic_field |-> 500, atmospheric_pressure |-> 61000,
               solar_flux |-> 59000]]

data(planet_) ==
    IF planet_ # "Custom Planet"
    THEN default_values[planet_]
    ELSE [magnetic_field |-> 0, atmospheric_pressure |-> 0, solar_flux |-> 0]

\* number inputs without a lower limit
min_value_unbounded == 0 - 1000000

\* min_value of the three number inputs, in hundredths
min_value == 0

\* the i-th st.number_input: what the user entered, or value while nothing is
\* entered
number_input(value, entered_, i) == IF entered_ = <<>> THEN value ELSE entered_[i]

\* the dict appended by the button's branch
simulation_record(planet_, magnetic_field, atmospheric_pressure, solar_flux, mcr, bvi, gei) ==
    ("Planet" :> planet_)
    @@ ("Magnetic Field Strength (uT)" :> magnetic_field)
    @@ ("Atmospheric Pressure (Pa)" :> atmospheric_pressure)
    @@ ("Solar Flux (W/m2)" :> solar_flux)
    @@ ("MCR" :> mcr) @@ ("BVI" :> bvi) @@ ("GEI" :> gei)

\* the keys of the dict, in the order they are written
record_keys ==
    << "Planet", "Magnetic Field Strength (uT)", "Atmospheric Pressure (Pa)",
       "Solar Flux (W/m2)", "MCR", "BVI", "GEI" >>

\* pd.DataFrame(list of dicts): the columns are the dicts' keys in order, one
\* row per dict
DataFrame(records) ==
    [columns |-> IF records = <<>> THEN <<>> ELSE record_keys,
     rows |-> [i \in 1..Len(records) |->
                  [c \in 1..Len(record_keys) |-> records[i][record_keys[c]]]]]

\* df.to_csv(index=False): the header line, then one line per row
to_csv(df_) ==
    << df_.columns >>
    \o [i \in 1..Len(df_.rows) |->
           [c \in 1..Len(df_.columns) |->
               IF c = 1 THEN df_.rows[i][c] ELSE str(df_.rows[i][c])]]

\* an element the script puts on the page
Element(kind, body) == [kind |-> kind, body |-> body]

\* lines 46-78: the title and the widgets
widgets_page(planet_, magnetic_field, atmospheric_pressure, solar_flux) ==
    << Element("title", "Planet Magnetic Rhythm Simulation System (EMRP)"),
       Element("selectbox", planet_),
       Element("number_input", <<"Magnetic Field Strength (uT):", magnetic_field>>),
       Element("number_input", <<"Atmospheric Pressure (Pa):", atmospheric_pressure>>),
       Element("number_input", <<"Solar Flux (W/m2):", solar_flux>>),
       Element("button", "Run Simulation") >>

\* lines 84-86 and 99-115: what the button's branch shows
button_page(planet_, inputs, mcr, bvi, gei) ==
    << Element("success", <<"MCR: ", str(mcr)>>),
       Element("success", <<"BVI: ", str(bvi)>>),
       Element("success", <<"GEI: ", str(gei)>>),
       Element("plotly_chart", [r |-> <<mcr, bvi, gei, mcr>>,
                                theta |-> <<"MCR", "BVI", "GEI", "MCR">>]),
       Element("markdown", [download |-> "simulation_report.pdf",
                            payload |-> generate_pdf(mcr, bvi, gei, planet_, inputs)]),
       Element("info", "PDF Report is ready. Click the link above to download.") >>

\* lines 117-128: the table and the CSV link, when the list is not empty
stored_results_page(simulation_results) ==
    IF simulation_results # <<>>
    THEN << Element("subheader", "All Simulations This Session"),
            Element("dataframe", DataFrame(simulation_results)),
            Element("markdown", [download |-> "all_simulations.csv",
                                 payload |-> to_csv(DataFrame(simulation_results))]) >>
    ELSE <<>>

\* an append that skips an item the list already holds
list_append_unless_present(list, item) ==
    IF \E i \in 1..Len(list) : list[i] = item THEN list ELSE Append(list, item)

\* list.append
list_append(list, item) == Append(list, item)

\* a "Run Simulation" branch that builds the table and the CSV from the list
\* as it was before the append
RunSimulation_table_before_append(ss, planet_, magnetic_field, atmospheric_pressure, solar_flux) ==
    \E mcr \in {calculate_mcr(magnetic_field)} :
    \E bvi \in {calculate_bvi(mcr, atmospheric_pressure)} :
    \E gei \in {calculate_gei(solar_flux)} :
        /\ session_state' =
               [ss EXCEPT !.simulation_results =
                   Append(@, simulation_record(planet_, magnetic_field,
                                               atmospheric_pressure, solar_flux,
                                               mcr, bvi, gei))]
        /\ page' = widgets_page(planet_, magnetic_field, atmospheric_pressure,
                                solar_flux)
                   \o button_page(planet_,
                                  [magnetic_field |-> magnetic_field,
                                   atmospheric_pressure |-> atmospheric_pressure,
                                   solar_flux |-> solar_flux],
                                  mcr, bvi, gei)
                   \o stored_results_page(ss.simulation_results)

\* the "Run Simulation" branch, lines 79-115, with the values the widgets gave
RunSimulation(ss, planet_, magnetic_field, atmospheric_pressure, solar_flux) ==
    \E mcr \in {calculate_mcr(magnetic_field)} :
    \E bvi \in {calculate_bvi(mcr, atmospheric_pressure)} :
    \E gei \in {calculate_gei(solar_flux)} :
    \E simulation_results \in
        { list_append(ss.simulation_results,
                      simulation_record(planet_, magnetic_field,
                                        atmospheric_pressure, solar_flux,
                                        mcr, bvi, gei)) } :
        /\ session_state' = [ss EXCEPT !.simulation_results = simulation_results]
        /\ page' = widgets_page(planet_, magnetic_field, atmospheric_pressure,
                                solar_flux)
                   \o button_page(planet_,
                                  [magnetic_field |-> magnetic_field,
                                   atmospheric_pressure |-> atmospheric_pressure,
                                   solar_flux |-> solar_flux],
                                  mcr, bvi, gei)
                   \o stored_results_page(simulation_results)

\* one run of the script with the widgets as given; button is TRUE in the run
\* a press of "Run Simulation" starts
ScriptB(planet_, entered_, button) ==
    \E ss \in {initialise(session_state)} :
    \E widgets \in
        { << number_input(data(planet_).magnetic_field, entered_, 1),
             number_input(data(planet_).atmospheric_pressure, entered_, 2),
             number_input(data(planet_).solar_flux, entered_, 3) >> } :
    \E magnetic_field \in {Hundredths(widgets[1])} :
    \E atmospheric_pressure \in {Hundredths(widgets[2])} :
    \E solar_flux \in {Hundredths(widgets[3])} :
        /\ planet' = planet_
        /\ entered' = entered_
        /\ IF button
           THEN /\ RunSimulation(ss, planet_, magnetic_field, atmospheric_pressure,
                                 solar_flux)
                /\ presses' = Append(presses, <<planet_>> \o widgets)
           ELSE /\ session_state' = ss
                /\ page' = widgets_page(planet_, magnetic_field,
                                        atmospheric_pressure, solar_flux)
                           \o stored_results_page(ss.simulation_results)
                /\ UNCHANGED presses
        /\ UNCHANGED <<libm, co_consts, typed, freq, emf, env_factor, df, call, ret>>

\* the literals of app.py: 100, 50000 and 10
LiteralsB == { <<100, 1>>, <<50000, 1>>, <<10, 1>> }

\* the number of presses of "Run Simulation" the model follows in a session
MaxRuns == 2

\* what the user of a session enters in the three number fields, in
\* hundredths: the model tries one filling-in per session
Typed ==
    { <<5040, 10132500, 136100>>,
      <<0, 0, 100001>>,
      <<0, 0, 100005>>,
      <<250, 50000, 100006>>,
      <<500, 61000, 100000>>,
      <<150, 1000000, 6>>,
      <<100000000, 2000000000, 2000000000>>,
      <<-100, 0, 0>> }

\* a new session: the script has not run, nothing is on the page
InitB ==
    /\ libm = "nearest"
    /\ co_consts = [l \in LiteralsB |-> Dec(l[1], l[2])]
    /\ typed \in Typed
    /\ planet = planets[1]
    /\ entered = <<>>
    /\ session_state = <<>>
    /\ page = <<>>
    /\ presses = <<>>
    /\ freq = freq_value
    /\ emf = emf_value
    /\ env_factor = env_factor_value
    /\ df = <<>>
    /\ call = NoCall
    /\ ret = <<>>

\* the page is opened: the first run
Load == page = <<>> /\ ScriptB(planet, entered, FALSE)

\* a rerun with the widgets as they are
RerunB == page # <<>> /\ ScriptB(planet, entered, FALSE)

\* another planet is selected: the number inputs' value= changes, which makes
\* them new widgets showing the new defaults
SelectPlanet(p) == page # <<>> /\ p # planet /\ ScriptB(p, <<>>, FALSE)

\* the user fills in the number fields; a number input takes no value below
\* its min_value
EnterInputs ==
    /\ page # <<>>
    /\ entered # typed
    /\ \A i \in 1..Len(typed) : min_value <= typed[i]
    /\ ScriptB(planet, typed, FALSE)

\* the user presses "Run Simulation"
PressRun ==
    /\ page # <<>>
    /\ Len(presses) < MaxRuns
    /\ ScriptB(planet, entered, TRUE)

vars ==
    <<libm, co_consts, freq, emf, env_factor, df, call, ret,
      typed, planet, entered, session_state, page, presses>>

NextA ==
    \/ \E f \in FreqPositions : SlideFreq(f)
    \/ \E e \in EmfPositions : SlideEmf(e)
    \/ \E v \in EnvPositions : SlideEnv(v)
    \/ RerunA

SpecA == InitA /\ [][NextA]_vars

NextFn ==
    \/ Call_clamp
    \/ Call_calculate_MCI
    \/ Call_calculate_BVI
    \/ Call_calculate_HS
    \/ Call_generate_results

SpecFn == InitFn /\ [][NextFn]_vars

NextB ==
    \/ Load
    \/ RerunB
    \/ \E p \in {planets[i] : i \in 1..Len(planets)} : SelectPlanet(p)
    \/ EnterInputs
    \/ PressRun

SpecB == InitB /\ [][NextB]_vars

(***************************************************************************)
(* The properties.                                                         *)
(***************************************************************************)
Zero == FZero(0)
One == FromInt(1)
InUnit(x) == FLe(Zero, x) /\ FLe(x, One)

\* the float next above a positive float
NextUp(x) == [s |-> x.s, m |-> BAdd(x.m, <<1>>), e |-> x.e]

\* the accumulator: st.session_state.simulation_results, empty before the
\* first run has made it
Accumulator ==
    IF "simulation_results" \in DOMAIN session_state
    THEN session_state.simulation_results
    ELSE <<>>

IsPrefix(a, b) == Len(a) <= Len(b) /\ \A i \in 1..Len(a) : a[i] = b[i]

Elements(kind) == SelectSeq(page, LAMBDA el : el.kind = kind)

CsvLinks ==
    SelectSeq(page, LAMBDA el : el.kind = "markdown"
                                /\ el.body.download = "all_simulations.csv")

TableColumns ==
    << "Planet", "Magnetic Field Strength (uT)", "Atmospheric Pressure (Pa)",
       "Solar Flux (W/m2)", "MCR", "BVI", "GEI" >>

\* the record a press with the widgets at press = <<planet, field, pressure,
\* flux>> produces
RecordOfPress(press) ==
    LET field    == Hundredths(press[2])
        pressure == Hundredths(press[3])
        flux     == Hundredths(press[4])
        mcr      == calculate_mcr(field)
    IN  simulation_record(press[1], field, pressure, flux, mcr,
                          calculate_bvi(mcr, pressure), calculate_gei(flux))

\* C1: in a session that started fresh, after N presses of "Run Simulation"
\* (and any other interactions) the accumulator holds exactly N records and
\* the i-th record is the one the i-th press produced; a press with the
\* planet and inputs of an earlier press appends all the same.
C1_PressesAppendInOrder ==
    /\ Len(Accumulator) = Len(presses)
    /\ \A i \in 1..Len(presses) : Accumulator[i] = RecordOfPress(presses[i])

\* two presses with the same planet and inputs have left two equal records
C1_Witness ==
    /\ Len(presses) = 2
    /\ presses[1] = presses[2]
    /\ Len(Accumulator) = 2
    /\ Accumulator[1] = Accumulator[2]

\* C2: every interaction (a run of the script with or without a press, a
\* change of planet, a change of the inputs) leaves the accumulator it found
\* as a prefix of the accumulator it leaves, and a list once initialised stays
\* initialised: no run resets it.
C2_AppendOnly ==
    [][/\ IsPrefix(Accumulator, Accumulator')
       /\ "simulation_results" \in DOMAIN session_state
            => "simulation_results" \in DOMAIN session_state']_vars

\* a run without a press has gone over a list that holds a record
C2_Witness ==
    /\ page # <<>>
    /\ Len(Accumulator) >= 1
    /\ Elements("success") = <<>>

\* C3: for every frequency, emf and env_factor, the slider ranges or not,
\* calculate_MCI, calculate_BVI and calculate_HS (and clamp) return a value in
\* [0,1], and every MCI, BVI and HS cell of the table of generate_results is
\* in [0,1].
C3_IndicesInUnitInterval ==
    ret # <<>> =>
        IF call.fn = "generate_results"
        THEN \A i \in 1..Len(ret[1]) :
                 InUnit(ret[1][i].MCI) /\ InUnit(ret[1][i].BVI) /\ InUnit(ret[1][i].HS)
        ELSE InUnit(ret[1])

\* calculate_MCI has returned for emf = -0.5, where the product is 1.5
C3_Witness ==
    /\ call = [fn |-> "calculate_MCI", args |-> <<783, -50>>]
    /\ ret # <<>>

\* C4: the record a press appends holds the planet and the three inputs of
\* the press, MCR = round(field/100, 2), BVI = round(MCR*pressure/50000, 2)
\* with the MCR already rounded, and GEI = round(100 - flux/10, 2): every
\* record of the accumulator satisfies the three equations on its own inputs.
\* The Earth defaults 50.0, 101325, 1361 give MCR 0.5, BVI 1.01, GEI -36.1.
C4_RecordsFollowFormulas ==
    \A i \in 1..Len(Accumulator) :
        LET r        == Accumulator[i]
            field    == r["Magnetic Field Strength (uT)"]
            pressure == r["Atmospheric Pressure (Pa)"]
            flux     == r["Solar Flux (W/m2)"]
        IN  /\ i <= Len(presses)
            /\ r["Planet"] = presses[i][1]
            /\ field = Dec(presses[i][2], 100)
            /\ pressure = Dec(presses[i][3], 100)
            /\ flux = Dec(presses[i][4], 100)
            /\ r["MCR"] = Round2(FDiv(field, FromInt(100)))
            /\ r["BVI"] = Round2(FDiv(FMul(r["MCR"], pressure), FromInt(50000)))
            /\ r["GEI"] = Round2(FSub(FromInt(100), FDiv(flux, FromInt(10))))
            /\ <<presses[i][2], presses[i][3], presses[i][4]>>
                 = <<5000, 10132500, 136100>>
               => /\ r["MCR"] = Dec(5, 10)
                  /\ r["BVI"] = Dec(101, 100)
                  /\ r["GEI"] = FNeg(Dec(361, 10))

\* the accumulator holds a record of the Earth defaults and one of a field of
\* 50.4, whose MCR 0.504 rounds to 0.5 before BVI is computed
C4_Witness ==
    /\ \E i \in 1..Len(presses) : presses[i] = <<"Earth", 5000, 10132500, 136100>>
    /\ \E i \in 1..Len(presses) : presses[i][2] = 5040
    /\ Len(Accumulator) = Len(presses)

\* the rows of the table but for the three numbers of the Earth row
C5_TableShape ==
    /\ Len(df) = 5
    /\ [i \in 1..5 |-> df[i].Environment]
         = <<"Earth", "Mars", "EMRP Bubble", "Urban Earth", "Custom Input">>
    /\ [i \in 1..4 |-> <<df[i].Frequency, df[i].EMF, df[i].EnvFactor>>]
         = << <<Dec(783, 100), Dec(2, 10), Dec(9, 10)>>,
              <<Dec(21, 10), Dec(5, 100), Dec(3, 10)>>,
              <<Dec(78, 10), Dec(1, 100), Dec(10, 10)>>,
              <<Dec(69, 10), Dec(6, 10), Dec(7, 10)>> >>
    /\ <<df[5].Frequency, df[5].EMF, df[5].EnvFactor>>
         = <<Dec(freq, 100), Dec(emf, 100), Dec(env_factor, 100)>>
    /\ \A i \in 1..5 :
           /\ df[i].MCI = calculate_MCI(df[i].Frequency, df[i].EMF)
           /\ df[i].BVI = calculate_BVI(df[i].MCI, libm)
           /\ df[i].HS = calculate_HS(df[i].MCI, df[i].BVI, df[i].EnvFactor)

\* C5 (as amended): generate_results returns five rows in the order Earth,
\* Mars, EMRP Bubble, Urban Earth, Custom Input; the preset rows hold their
\* hardcoded Frequency, EMF and Env Factor whatever the custom input is, the
\* fifth row holds the custom input, and in every row MCI, BVI and HS are
\* calculate_MCI, calculate_BVI and calculate_HS of the row.  The Earth row
\* has MCI 0.8 exactly.  The square of the float 0.8 lies between the floats
\* 0.64 and 0.6400000000000001, nearer the second: with a pow that rounds to
\* nearest BVI and HS are the floats next above 0.64 and 0.746
\* (0.6400000000000001 and 0.7460000000000001), and they are 0.64 and 0.746
\* only with a pow that returns the other neighbour.
C5_TableOfFiveRows ==
    /\ C5_TableShape
    /\ df[1].MCI = Dec(8, 10)
    /\ IF libm = "nearest"
       THEN /\ df[1].BVI = NextUp(Dec(64, 100))
            /\ df[1].HS = NextUp(Dec(746, 1000))
       ELSE /\ df[1].BVI = Dec(64, 100)
            /\ df[1].HS = Dec(746, 1000)

\* the table of a run with the sliders off their defaults
C5_Witness ==
    /\ freq = 210 /\ emf = 5 /\ env_factor = 30
    /\ Len(df) = 5
    /\ df[5].Frequency = Dec(210, 100)

\* C5 as stated: the Earth row is MCI 0.8, BVI 0.64, HS 0.746
C5_AsStated ==
    /\ C5_TableShape
    /\ df[1].MCI = Dec(8, 10)
    /\ df[1].BVI = Dec(64, 100)
    /\ df[1].HS = Dec(746, 1000)

\* C6: calculate_MCI(f, emf) is 0 for every emf when |f - 7.83| > 2.5; at
\* |f - 7.83| = 2.5 the test diff <= 2.5 holds, so the linear branch is taken,
\* and the result is 0 as well; calculate_MCI(7.83, 0) is 1.0.
C6_ZeroOutsideTolerance ==
    (call.fn = "calculate_MCI" /\ ret # <<>>) =>
        LET f    == call.args[1]
            far  == IF f >= 783 THEN f - 783 ELSE 783 - f
            diff == FAbs(FSub(Dec(f, 100), Dec(783, 100)))
        IN  /\ far > 250 => IsZero(ret[1])
            /\ far = 250 => FLe(diff, Dec(25, 10)) /\ IsZero(ret[1])
            /\ (f = 783 /\ call.args[2] = 0) => ret[1] = One

\* calculate_MCI has returned at the upper boundary, f = 10.33
C6_Witness ==
    /\ call = [fn |-> "calculate_MCI", args |-> <<1033, 0>>]
    /\ ret # <<>>

\* C7 (as amended): the GEI stored for a run whose solar flux is above 1000
\* is never positive; it is below 0 (-0.01 or less) when the flux is 1000.06
\* or more, and it is the zero -0.0 for the fluxes in between that have two
\* decimals.
C7_GeiNotPositiveAbove1000 ==
    \A i \in 1..Len(Accumulator) :
        LET flux == Accumulator[i]["Solar Flux (W/m2)"]
            gei  == Accumulator[i]["GEI"]
        IN  FLt(FromInt(1000), flux) =>
                /\ FLe(gei, Zero)
                /\ IF FLe(Dec(100006, 100), flux)
                   THEN FLe(gei, FNeg(Dec(1, 100)))
                   ELSE IsZero(gei)

\* a run with a solar flux of 1000.01 is in the accumulator
C7_Witness ==
    \E i \in 1..Len(Accumulator) :
        /\ i <= Len(presses)
        /\ presses[i][4] = 100001
        /\ Accumulator[i]["Solar Flux (W/m2)"] = Dec(100001, 100)

\* C7 as stated: a solar flux above 1000 gives a stored GEI below 0
C7_AsStated ==
    \A i \in 1..Len(Accumulator) :
        FLt(FromInt(1000), Accumulator[i]["Solar Flux (W/m2)"])
            => FLt(Accumulator[i]["GEI"], Zero)

\* C8: at the end of every interaction the table and the CSV on the page hold
\* all the records of the accumulator, in its order, under the columns Planet,
\* Magnetic Field Strength, Atmospheric Pressure, Solar Flux, MCR, BVI, GEI;
\* the run of a press shows the record it appended in its own table and CSV;
\* while the accumulator is empty the page has no table and no CSV link.
C8_TableAndCsvShowAccumulator ==
    page # <<>> =>
        LET tables == Elements("dataframe")
            n      == Len(Accumulator)
        IN  IF n = 0
            THEN tables = <<>> /\ CsvLinks = <<>> /\ Elements("subheader") = <<>>
            ELSE /\ Len(tables) = 1
                 /\ Len(CsvLinks) = 1
                 /\ tables[1].body.columns = TableColumns
                 /\ Len(tables[1].body.rows) = n
                 /\ CsvLinks[1].body.payload[1] = TableColumns
                 /\ Len(CsvLinks[1].body.payload) = n + 1
                 /\ \A i \in 1..n : \A c \in 1..Len(TableColumns) :
                        /\ tables[1].body.rows[i][c] = Accumulator[i][TableColumns[c]]
                        /\ CsvLinks[1].body.payload[i + 1][c]
                             = IF c = 1 THEN Accumulator[i][TableColumns[c]]
                               ELSE [repr |-> Accumulator[i][TableColumns[c]]]
                 /\ Elements("success") # <<>> =>
                        /\ n = Len(presses)
                        /\ tables[1].body.rows[n] =
                               [c \in 1..Len(TableColumns) |->
                                   RecordOfPress(presses[n])[TableColumns[c]]]
                        /\ Elements("success")[1].body[2]
                             = [repr |-> tables[1].body.rows[n][5]]

\* the run of the second press of a session has shown its table
C8_Witness ==
    /\ Elements("success") # <<>>
    /\ Len(Accumulator) = 2
    /\ Len(Elements("dataframe")) = 1

\* the weighted sum of calculate_HS, without the clamp
WeightedSum(mci, bvi, env_factor_) ==
    FAdd(FAdd(FMul(Dec(5, 10), mci), FMul(Dec(4, 10), bvi)),
         FMul(Dec(1, 10), env_factor_))

\* C9: for mci, bvi and env_factor in [0,1] the sum 0.5*mci + 0.4*bvi +
\* 0.1*env_factor is in [0,1] and calculate_HS returns exactly that sum;
\* calculate_HS(1,1,1) is 1.0 and calculate_HS(0,0,0) is 0.0; and in every
\* row of generate_results whose env_factor is in [0,1], HS is the sum.
C9_ClampOfHsRedundant ==
    /\ (call.fn = "calculate_HS" /\ ret # <<>>
        /\ \A k \in 1..3 : 0 <= call.args[k] /\ call.args[k] <= 100) =>
           LET sum == WeightedSum(Dec(call.args[1], 100), Dec(call.args[2], 100),
                                  Dec(call.args[3], 100))
           IN  /\ InUnit(sum)
               /\ ret[1] = sum
               /\ call.args = <<100, 100, 100>> => ret[1] = One
               /\ call.args = <<0, 0, 0>> => ret[1] = Zero
    /\ (call.fn = "generate_results" /\ ret # <<>>) =>
           \A i \in 1..Len(ret[1]) :
               InUnit(ret[1][i].EnvFactor) =>
                   /\ InUnit(WeightedSum(ret[1][i].MCI, ret[1][i].BVI,
                                         ret[1][i].EnvFactor))
                   /\ ret[1][i].HS = WeightedSum(ret[1][i].MCI, ret[1][i].BVI,
                                                 ret[1][i].EnvFactor)

\* calculate_HS(1, 1, 1) has returned
C9_Witness ==
    /\ call = [fn |-> "calculate_HS", args |-> <<100, 100, 100>>]
    /\ ret # <<>>

\* C10: the number inputs take no value below 0, so every record of the
\* accumulator has inputs >= 0, MCR >= 0, BVI >= 0 and GEI <= 100; the Custom
\* Planet defaults 0, 0, 0 give MCR 0, BVI 0 and GEI 100.
C10_RecordsWithinBounds ==
    \A i \in 1..Len(Accumulator) :
        LET r == Accumulator[i]
        IN  /\ FLe(Zero, r["Magnetic Field Strength (uT)"])
            /\ FLe(Zero, r["Atmospheric Pressure (Pa)"])
            /\ FLe(Zero, r["Solar Flux (W/m2)"])
            /\ FLe(Zero, r["MCR"])
            /\ FLe(Zero, r["BVI"])
            /\ FLe(r["GEI"], FromInt(100))
            /\ (i <= Len(presses) /\ presses[i] = <<"Custom Planet", 0, 0, 0>>)
               => /\ IsZero(r["MCR"])
                  /\ IsZero(r["BVI"])
                  /\ r["GEI"] = FromInt(100)

\* a press with the Custom Planet defaults is in the accumulator
C10_Witness ==
    \E i \in 1..Len(Accumulator) :
        /\ i <= Len(presses)
        /\ presses[i] = <<"Custom Planet", 0, 0, 0>>
        /\ Accumulator[i]["Planet"] = "Custom Planet"
====
